---- MODULE Spec2Model ----
(***************************************************************************)
(* smacro: the three macro_rules! builders s!, map! and set!.              *)
(*                                                                         *)
(* A call site is a token sequence.  Expansion matches the tokens against  *)
(* the arms of the macro in declaration order, binds the fragments and     *)
(* runs the statements of the chosen arm one at a time.  Strings are       *)
(* sequences of one-character strings.                                     *)
(***************************************************************************)
EXTENDS Integers, Sequences, FiniteSets

(* ------------------------------ bounds -------------------------------- *)
\* longest template string literal handed to s!
MaxLen == 4
\* most key => value pairs in a map! call
MaxPairs == 3
\* most elements in a set! call
MaxElems == 3
\* keys and set elements are the integers 1..MaxKey
MaxKey == 3

(* ------------------------------ values -------------------------------- *)
\* A runtime value: an integer, a boolean (n is 0 or 1) or a string.
IntV(n) == [ty |-> "int", n |-> n, s |-> << >>]
BoolV(b) == [ty |-> "bool", n |-> IF b THEN 1 ELSE 0, s |-> << >>]
StrV(s) == [ty |-> "str", n |-> 0, s |-> s]
NoV == [ty |-> "none", n |-> 0, s |-> << >>]

Digits == <<"0", "1", "2", "3", "4", "5", "6", "7", "8", "9">>

RECURSIVE NatToStr(_)
NatToStr(n) ==
    IF n < 10 THEN <<Digits[n + 1]>>
    ELSE NatToStr(n \div 10) \o <<Digits[(n % 10) + 1]>>

\* <i32 as Display>::fmt
IntToStr(n) == IF n < 0 THEN <<"-">> \o NatToStr(-n) ELSE NatToStr(n)

\* ToString::to_string: the value written by its Display implementation
to_string(v) ==
    CASE v.ty = "int" -> IntToStr(v.n)
      [] v.ty = "bool" -> IF v.n = 1 THEN <<"t", "r", "u", "e">>
                          ELSE <<"f", "a", "l", "s", "e">>
      [] v.ty = "str" -> v.s

RECURSIVE Spaces(_)
Spaces(n) == IF n <= 0 THEN << >> ELSE <<" ">> \o Spaces(n - 1)

\* Formatter::pad / pad_integral with a width and the default alignment:
\* numbers are right-aligned, everything else left-aligned.
Pad(v, width) ==
    LET txt == to_string(v)
        fill == Spaces(width - Len(txt))
    IN IF v.ty = "int" THEN fill \o txt ELSE txt \o fill

IsDigit(c) == \E d \in 1..10 : Digits[d] = c
DigitVal(c) == (CHOOSE d \in 1..10 : Digits[d] = c) - 1

\* first position at or after p that holds no digit
RECURSIVE SkipDigits(_, _)
SkipDigits(T, p) ==
    IF p <= Len(T) /\ IsDigit(T[p]) THEN SkipDigits(T, p + 1) ELSE p

\* the decimal number written at T[p..q-1], 0 when empty
RECURSIVE ReadNat(_, _, _, _)
ReadNat(T, p, q, acc) ==
    IF p >= q THEN acc ELSE ReadNat(T, p + 1, q, acc * 10 + DigitVal(T[p]))

\* A placeholder opening at T[p] = "{" : "{}" or "{:" width "}".
\* Yields the position of its closing brace, or 0 when it is malformed.
HoleEnd(T, p) ==
    IF p + 1 > Len(T) THEN 0
    ELSE IF T[p + 1] = "}" THEN p + 1
    ELSE IF T[p + 1] = ":"
         THEN LET q == SkipDigits(T, p + 2)
              IN IF q <= Len(T) /\ T[q] = "}" THEN q ELSE 0
    ELSE 0

HoleWidth(T, p) ==
    IF T[p + 1] = ":" THEN ReadNat(T, p + 2, SkipDigits(T, p + 2), 0) ELSE 0

\* number of placeholders of template T from position p, or -1 when the
\* template is rejected by the compiler
RECURSIVE Holes(_, _)
Holes(T, p) ==
    IF p > Len(T) THEN 0
    ELSE IF T[p] = "{"
         THEN IF p + 1 <= Len(T) /\ T[p + 1] = "{" THEN Holes(T, p + 2)
              ELSE IF HoleEnd(T, p) = 0 THEN -1
              ELSE LET r == Holes(T, HoleEnd(T, p) + 1)
                   IN IF r < 0 THEN -1 ELSE r + 1
    ELSE IF T[p] = "}"
         THEN IF p + 1 <= Len(T) /\ T[p + 1] = "}" THEN Holes(T, p + 2)
              ELSE -1
    ELSE Holes(T, p + 1)

\* format!(T, A...): the rendering of a valid template from position p,
\* the next positional argument being A[next]
RECURSIVE Render(_, _, _, _)
Render(T, p, A, next) ==
    IF p > Len(T) THEN << >>
    ELSE IF T[p] = "{"
         THEN IF T[p + 1] = "{" THEN <<"{">> \o Render(T, p + 2, A, next)
              ELSE Pad(A[next], HoleWidth(T, p))
                   \o Render(T, HoleEnd(T, p) + 1, A, next + 1)
    ELSE IF T[p] = "}" THEN <<"}">> \o Render(T, p + 2, A, next)
    ELSE <<T[p]>> \o Render(T, p + 1, A, next)

format(T, A) == Render(T, 1, A, 1)

(* ------------------------------ tokens -------------------------------- *)
\* A call-site token: an expression (with the value it evaluates to; lit
\* marks a string literal), a comma, or the => of map!.
Expr(v) == [k |-> "expr", v |-> v]
Comma == [k |-> "comma", v |-> NoV]
Arrow == [k |-> "arrow", v |-> NoV]
IsLit(tok) == tok.k = "expr" /\ tok.v.ty = "str"

\* $($e:expr),+ $(,)?  from position p: the positions of the expressions,
\* one fragment per repetition, or ok = FALSE when the tokens do not match
RECURSIVE MatchExprs(_, _, _)
MatchExprs(toks, p, acc) ==
    IF p > Len(toks) \/ toks[p].k # "expr" THEN [ok |-> FALSE, bind |-> << >>]
    ELSE LET got == Append(acc, <<p>>)
         IN IF p = Len(toks) THEN [ok |-> TRUE, bind |-> got]
            ELSE IF toks[p + 1].k # "comma" THEN [ok |-> FALSE, bind |-> << >>]
            ELSE IF p + 1 = Len(toks) THEN [ok |-> TRUE, bind |-> got]
            ELSE MatchExprs(toks, p + 2, got)

\* MatchPairs gone wrong: the pattern lacks its $(,)? and a comma must be
\* followed by another pair
RECURSIVE MatchPairs_no_trailing_comma(_, _, _)
MatchPairs_no_trailing_comma(toks, p, acc) ==
    IF p + 2 > Len(toks) \/ toks[p].k # "expr" \/ toks[p + 1].k # "arrow"
       \/ toks[p + 2].k # "expr"
    THEN [ok |-> FALSE, bind |-> << >>]
    ELSE LET got == Append(acc, <<p, p + 2>>)
         IN IF p + 2 = Len(toks) THEN [ok |-> TRUE, bind |-> got]
            ELSE IF toks[p + 3].k # "comma" THEN [ok |-> FALSE, bind |-> << >>]
            ELSE MatchPairs_no_trailing_comma(toks, p + 4, got)

\* $($key:expr => $value:expr),+ $(,)?  from position p
RECURSIVE MatchPairs(_, _, _)
MatchPairs(toks, p, acc) ==
    IF p + 2 > Len(toks) \/ toks[p].k # "expr" \/ toks[p + 1].k # "arrow"
       \/ toks[p + 2].k # "expr"
    THEN [ok |-> FALSE, bind |-> << >>]
    ELSE LET got == Append(acc, <<p, p + 2>>)
         IN IF p + 2 = Len(toks) THEN [ok |-> TRUE, bind |-> got]
            ELSE IF toks[p + 3].k # "comma" THEN [ok |-> FALSE, bind |-> << >>]
            ELSE IF p + 3 = Len(toks) THEN [ok |-> TRUE, bind |-> got]
            ELSE MatchPairs(toks, p + 4, got)

\* $($arg:tt)* : every token is one fragment
MatchTts(toks) == [p \in 1..Len(toks) |-> <<p>>]

\* s_arm gone wrong: the conversion arm takes any call that starts with an
\* expression
s_arm_first_expr(toks) ==
    IF toks = << >> THEN [arm |-> 1, bind |-> << >>]
    ELSE IF toks[1].k = "expr" THEN [arm |-> 2, bind |-> <<<<1>>>>]
    ELSE [arm |-> 3, bind |-> MatchTts(toks)]

\* s_arm gone wrong: the formatting arm is declared before the conversion arm
s_arm_format_first(toks) ==
    IF toks = << >> THEN [arm |-> 1, bind |-> << >>]
    ELSE [arm |-> 3, bind |-> MatchTts(toks)]

\* s_arm gone wrong: a lone string literal is handed to format!
s_arm_literal_formats(toks) ==
    IF toks = << >> THEN [arm |-> 1, bind |-> << >>]
    ELSE IF Len(toks) = 1 /\ toks[1].k = "expr" /\ ~IsLit(toks[1])
         THEN [arm |-> 2, bind |-> <<<<1>>>>]
    ELSE [arm |-> 3, bind |-> MatchTts(toks)]

\* macro_rules! s: the first arm, in declaration order, that matches
s_arm(toks) ==
    IF toks = << >> THEN [arm |-> 1, bind |-> << >>]
    ELSE IF Len(toks) = 1 /\ toks[1].k = "expr" THEN [arm |-> 2, bind |-> <<<<1>>>>]
    ELSE [arm |-> 3, bind |-> MatchTts(toks)]

\* macro_rules! map; arm 0: no arm matches (the call does not compile)
map_arm(toks) ==
    IF toks = << >> THEN [arm |-> 1, bind |-> << >>]
    ELSE LET m == MatchPairs(toks, 1, << >>)
         IN IF m.ok THEN [arm |-> 2, bind |-> m.bind] ELSE [arm |-> 0, bind |-> << >>]

\* macro_rules! set
set_arm(toks) ==
    IF toks = << >> THEN [arm |-> 1, bind |-> << >>]
    ELSE LET m == MatchExprs(toks, 1, << >>)
         IN IF m.ok THEN [arm |-> 2, bind |-> m.bind] ELSE [arm |-> 0, bind |-> << >>]

Expand(m, toks) ==
    CASE m = "s" -> s_arm(toks)
      [] m = "map" -> map_arm(toks)
      [] m = "set" -> set_arm(toks)

\* format!(tokens): a string literal, then the arguments; the positions of
\* the argument expressions
FormatArgs(toks) ==
    IF Len(toks) = 1 THEN [ok |-> TRUE, bind |-> << >>]
    ELSE IF Len(toks) = 2 THEN [ok |-> toks[2].k = "comma", bind |-> << >>]
    ELSE IF toks[2].k # "comma" THEN [ok |-> FALSE, bind |-> << >>]
    ELSE MatchExprs(toks, 3, << >>)

\* format! accepts the tokens: a literal template, valid, with as many
\* placeholders as arguments
FormatCompiles(toks) ==
    /\ toks # << >>
    /\ IsLit(toks[1])
    /\ FormatArgs(toks).ok
    /\ Holes(toks[1].v.s, 1) = Len(FormatArgs(toks).bind)

Compiles(m, toks) ==
    /\ Expand(m, toks).arm # 0
    /\ (m = "s" /\ Expand(m, toks).arm = 3) => FormatCompiles(toks)

(* --------------------------- call sites ------------------------------- *)
TChars == {"a", "{", "}", ":", "3"}
Strings == UNION {[1..n -> TChars] : n \in 0..MaxLen}
Keys == {IntV(n) : n \in 1..MaxKey}
Vals == {IntV(10), IntV(20)}
SVals == {IntV(42), IntV(-7), BoolV(TRUE)}

SeqsUpTo(S, n) == UNION {[1..j -> S] : j \in 0..n}

RECURSIVE Commas(_)
Commas(n) == IF n = 0 THEN << >> ELSE <<Comma>> \o Commas(n - 1)

\* e1, e2, ..., en
RECURSIVE JoinExprs(_)
JoinExprs(vs) ==
    IF vs = << >> THEN << >>
    ELSE IF Len(vs) = 1 THEN <<Expr(vs[1])>>
    ELSE <<Expr(vs[1]), Comma>> \o JoinExprs(Tail(vs))

\* k1 => v1, ..., kn => vn
RECURSIVE JoinPairs(_)
JoinPairs(ps) ==
    IF ps = << >> THEN << >>
    ELSE IF Len(ps) = 1 THEN <<Expr(ps[1][1]), Arrow, Expr(ps[1][2])>>
    ELSE <<Expr(ps[1][1]), Arrow, Expr(ps[1][2]), Comma>> \o JoinPairs(Tail(ps))

\* the call sites written: argument lists followed by 0, 1 or 2 commas
Written(m) ==
    CASE m = "s" ->
            {JoinExprs(<<v>>) : v \in SVals \cup {StrV(t) : t \in Strings}}
            \cup {JoinExprs(<<StrV(t)>> \o a) \o Commas(c) :
                    t \in Strings, a \in SeqsUpTo(SVals, MaxLen \div 2), c \in 0..1}
            \cup {<< >>}
      [] m = "map" ->
            {JoinPairs(ps) \o Commas(c) :
                    ps \in SeqsUpTo(Keys \X Vals, MaxPairs), c \in 0..2}
      [] m = "set" ->
            {JoinExprs(es) \o Commas(c) : es \in SeqsUpTo(Keys, MaxElems), c \in 0..2}

(* ------------------------------ state --------------------------------- *)
VARIABLES
    macro,      \* the macro invoked: "s", "map" or "set"
    tokens,     \* the tokens between its delimiters
    arm,        \* the arm chosen by expansion, 0 before expansion
    bind,       \* the fragments bound by the arm's matcher
    pc,         \* the statement of the expansion to run next
    i,          \* the repetition being run
    kreg, vreg, \* the evaluated arguments of the pending insert
    map,        \* let mut map
    set,        \* let mut set
    string,     \* the String the s! expansion evaluates to
    log,        \* what ran so far: evaluations, inserts, conversions
    run,        \* 1 for the first call, 2 for the repeated call
    prev        \* what the first call returned

Eval(pos) == tokens[pos].v
Ev(kind, at) == [ev |-> kind, at |-> at]

vars == <<macro, tokens, arm, bind, pc, i, kreg, vreg, map, set, string, log, run, prev>>

EmptyMap == [k \in {} |-> NoV]

\* insert gone wrong: an existing key keeps its first value
insert_keep_first(m, k, v) ==
    [x \in DOMAIN m \cup {k} |-> IF x \in DOMAIN m THEN m[x] ELSE v]

\* insert gone wrong: the mapping is built anew for every pair
insert_fresh(m, k, v) == [x \in {k} |-> v]

\* HashMap::insert: the value of an existing key is replaced
insert(m, k, v) == [x \in DOMAIN m \cup {k} |-> IF x = k THEN v ELSE m[x]]

\* set_insert gone wrong: the set is built anew for every element
set_insert_fresh(st, e) == {e}

\* HashSet::insert
set_insert(st, e) == st \cup {e}


Fresh ==
    /\ arm = 0 /\ bind = << >> /\ pc = "expand" /\ i = 0
    /\ kreg = NoV /\ vreg = NoV
    /\ map = EmptyMap /\ set = {} /\ string = << >> /\ log = << >>

Init ==
    /\ macro \in {"s", "map", "set"}
    /\ tokens \in {t \in Written(macro) : Compiles(macro, t)}
    /\ Fresh
    /\ run = 1
    /\ prev = [map |-> EmptyMap, set |-> {}]

(* --------------------------- expansion -------------------------------- *)
\* the compiler picks the arm and binds its fragments
ExpandCall ==
    /\ pc = "expand"
    /\ arm' = Expand(macro, tokens).arm
    /\ bind' = Expand(macro, tokens).bind
    /\ pc' = "body"
    /\ UNCHANGED <<macro, tokens, i, kreg, vreg, map, set, string, log, run, prev>>

(* -------------------------------- s! ---------------------------------- *)
\* SNew gone wrong: the empty string is made by converting a literal
SNew_converts ==
    /\ pc = "body" /\ macro = "s" /\ arm = 1
    /\ string' = to_string(StrV(<< >>))
    /\ log' = Append(log, Ev("to_string", 0))
    /\ pc' = "done"
    /\ UNCHANGED <<macro, tokens, arm, bind, i, kreg, vreg, map, set, run, prev>>

\* () => { String::new() }
SNew ==
    /\ pc = "body" /\ macro = "s" /\ arm = 1
    /\ string' = << >>
    /\ pc' = "done"
    /\ UNCHANGED <<macro, tokens, arm, bind, i, kreg, vreg, map, set, log, run, prev>>

\* ($e:expr) => { $e.to_string() }
SToString ==
    /\ pc = "body" /\ macro = "s" /\ arm = 2
    /\ LET e == bind[1][1]
       IN /\ string' = to_string(Eval(e))
          /\ log' = log \o <<Ev("eval", e), Ev("to_string", e)>>
    /\ pc' = "done"
    /\ UNCHANGED <<macro, tokens, arm, bind, i, kreg, vreg, map, set, run, prev>>

\* ($($arg:tt)*) => { format!($($arg)*) }
SFormat ==
    /\ pc = "body" /\ macro = "s" /\ arm = 3
    /\ LET args == FormatArgs(tokens).bind
           A == [j \in 1..Len(args) |-> Eval(args[j][1])]
       IN /\ string' = format(Eval(1).s, A)
          /\ log' = log \o [j \in 1..Len(args) |-> Ev("eval", args[j][1])]
                        \o <<Ev("format", 1)>>
    /\ pc' = "done"
    /\ UNCHANGED <<macro, tokens, arm, bind, i, kreg, vreg, map, set, run, prev>>

(* ------------------------------- map! --------------------------------- *)
\* [] => { HashMap::new() }
MapEmpty ==
    /\ pc = "body" /\ macro = "map" /\ arm = 1
    /\ map' = EmptyMap
    /\ pc' = "done"
    /\ UNCHANGED <<macro, tokens, arm, bind, i, kreg, vreg, set, string, log, run, prev>>

\* let mut map = HashMap::new();
MapNew ==
    /\ pc = "body" /\ macro = "map" /\ arm = 2
    /\ map' = EmptyMap
    /\ i' = 1
    /\ pc' = "key"
    /\ UNCHANGED <<macro, tokens, arm, bind, kreg, vreg, set, string, log, run, prev>>

\* MapKey gone wrong: the key expression is expanded, and evaluated, twice
MapKey_twice ==
    /\ pc = "key"
    /\ kreg' = Eval(bind[i][1])
    /\ log' = log \o <<Ev("eval", bind[i][1]), Ev("eval", bind[i][1])>>
    /\ pc' = "value"
    /\ UNCHANGED <<macro, tokens, arm, bind, i, vreg, map, set, string, run, prev>>

\* map.insert($key, $value): the first argument is evaluated
MapKey ==
    /\ pc = "key"
    /\ kreg' = Eval(bind[i][1])
    /\ log' = Append(log, Ev("eval", bind[i][1]))
    /\ pc' = "value"
    /\ UNCHANGED <<macro, tokens, arm, bind, i, vreg, map, set, string, run, prev>>

\* map.insert($key, $value): the second argument is evaluated
MapValue ==
    /\ pc = "value"
    /\ vreg' = Eval(bind[i][2])
    /\ log' = Append(log, Ev("eval", bind[i][2]))
    /\ pc' = "insert"
    /\ UNCHANGED <<macro, tokens, arm, bind, i, kreg, map, set, string, run, prev>>

\* map.insert($key, $value): the call; after the last repetition the block
\* evaluates to map
MapInsert ==
    /\ pc = "insert" /\ macro = "map"
    /\ map' = insert(map, kreg, vreg)
    /\ log' = Append(log, Ev("insert", i))
    /\ IF i < Len(bind) THEN i' = i + 1 /\ pc' = "key"
                        ELSE i' = i /\ pc' = "done"
    /\ UNCHANGED <<macro, tokens, arm, bind, kreg, vreg, set, string, run, prev>>

(* ------------------------------- set! --------------------------------- *)
\* () => { HashSet::new() }
SetEmpty ==
    /\ pc = "body" /\ macro = "set" /\ arm = 1
    /\ set' = {}
    /\ pc' = "done"
    /\ UNCHANGED <<macro, tokens, arm, bind, i, kreg, vreg, map, string, log, run, prev>>

\* let mut set = HashSet::new();
SetNew ==
    /\ pc = "body" /\ macro = "set" /\ arm = 2
    /\ set' = {}
    /\ i' = 1
    /\ pc' = "elem"
    /\ UNCHANGED <<macro, tokens, arm, bind, kreg, vreg, map, string, log, run, prev>>

\* SetElem gone wrong: the element expression is expanded, and evaluated,
\* twice
SetElem_twice ==
    /\ pc = "elem"
    /\ kreg' = Eval(bind[i][1])
    /\ log' = log \o <<Ev("eval", bind[i][1]), Ev("eval", bind[i][1])>>
    /\ pc' = "insert"
    /\ UNCHANGED <<macro, tokens, arm, bind, i, vreg, map, set, string, run, prev>>

\* set.insert($e): the argument is evaluated
SetElem ==
    /\ pc = "elem"
    /\ kreg' = Eval(bind[i][1])
    /\ log' = Append(log, Ev("eval", bind[i][1]))
    /\ pc' = "insert"
    /\ UNCHANGED <<macro, tokens, arm, bind, i, vreg, map, set, string, run, prev>>

\* set.insert($e): the call; after the last repetition the block evaluates
\* to set
SetInsert ==
    /\ pc = "insert" /\ macro = "set"
    /\ set' = set_insert(set, kreg)
    /\ log' = Append(log, Ev("insert", i))
    /\ IF i < Len(bind) THEN i' = i + 1 /\ pc' = "elem"
                        ELSE i' = i /\ pc' = "done"
    /\ UNCHANGED <<macro, tokens, arm, bind, kreg, vreg, map, string, run, prev>>

(* ---------------------- the same call, with a comma ------------------- *)
HasTrailingComma(toks) == toks # << >> /\ toks[Len(toks)].k = "comma"

\* the test modules write the builders a second time with a comma after
\* the last pair or element
Recall ==
    /\ pc = "done" /\ run = 1
    /\ macro \in {"map", "set"}
    /\ tokens # << >> /\ ~HasTrailingComma(tokens)
    /\ run' = 2
    /\ prev' = [map |-> map, set |-> set]
    /\ tokens' = Append(tokens, Comma)
    /\ arm' = 0 /\ bind' = << >> /\ pc' = "expand" /\ i' = 0
    /\ kreg' = NoV /\ vreg' = NoV
    /\ map' = EmptyMap /\ set' = {} /\ string' = << >> /\ log' = << >>
    /\ UNCHANGED macro

Next ==
    \/ ExpandCall
    \/ SNew \/ SToString \/ SFormat
    \/ MapEmpty \/ MapNew \/ MapKey \/ MapValue \/ MapInsert
    \/ SetEmpty \/ SetNew \/ SetElem \/ SetInsert
    \/ Recall

Spec == Init /\ [][Next]_vars

(* ======================== what the claims read ======================== *)
\* The argument list as written, read off the tokens without the matcher.
ArrowPos(toks) == {p \in 1..Len(toks) : toks[p].k = "arrow"}
ExprPos(toks) == {p \in 1..Len(toks) : toks[p].k = "expr"}
NumPairs(toks) == Cardinality(ArrowPos(toks))
KeysWritten(toks) == {toks[p - 1].v : p \in ArrowPos(toks)}
ElemsWritten(toks) == {toks[p].v : p \in ExprPos(toks)}
Max(S) == CHOOSE m \in S : \A y \in S : y <= m

\* the arrows of the first n pairs
FirstArrows(toks, n) == {p \in ArrowPos(toks) : Cardinality({q \in ArrowPos(toks) : q <= p}) <= n}

\* the mapping the first n pairs denote: for each key, the value of the
\* last of those pairs that carries it
LastWins(toks, n) ==
    [k \in {toks[p - 1].v : p \in FirstArrows(toks, n)} |->
        toks[Max({p \in FirstArrows(toks, n) : toks[p - 1].v = k}) + 1].v]

Size(m) == Cardinality(DOMAIN m)
Inserts(l) == Len(SelectSeq(l, LAMBDA e : e.ev = "insert"))
Count(l, e) == Cardinality({q \in 1..Len(l) : l[q] = e})
IsPrefix(a, b) == Len(a) <= Len(b) /\ SubSeq(b, 1, Len(a)) = a
IsExprTok(tok) == tok.k = "expr"

\* the substitution values written after the template
ArgsWritten(toks) ==
    LET rest == SelectSeq(SubSeq(toks, 2, Len(toks)), IsExprTok)
    IN [j \in 1..Len(rest) |-> rest[j].v]

HasBrace(t) == \E p \in 1..Len(t) : t[p] \in {"{", "}"}

MapDone == pc = "done" /\ macro = "map" /\ tokens # << >>
SetDone == pc = "done" /\ macro = "set" /\ tokens # << >>
SDone == pc = "done" /\ macro = "s"

(* ------------------------------- C1 ----------------------------------- *)
\* C1: map! on a non-empty pair list returns a mapping whose keys are
\* exactly the distinct keys written, each bound to the value of the last
\* pair that carries it.
C1_LastValueWins ==
    MapDone =>
        /\ DOMAIN map = KeysWritten(tokens)
        /\ \A k \in DOMAIN map :
              map[k] = tokens[Max({p \in ArrowPos(tokens) : tokens[p - 1].v = k}) + 1].v

\* a finished map! call that wrote one key twice with different values
C1_Witness ==
    /\ MapDone
    /\ \E p, q \in ArrowPos(tokens) :
          p < q /\ tokens[p - 1].v = tokens[q - 1].v /\ tokens[p + 1].v # tokens[q + 1].v

(* ------------------------------- C2 ----------------------------------- *)
\* C2: set! on a non-empty element list returns a set that holds every
\* element written, nothing else, and as many members as there are
\* distinct elements.
C2_DistinctElements ==
    SetDone =>
        /\ \A p \in ExprPos(tokens) : tokens[p].v \in set
        /\ \A e \in set : \E p \in ExprPos(tokens) : tokens[p].v = e
        /\ Cardinality(set) = Cardinality(ElemsWritten(tokens))

\* a finished set! call that wrote some element twice and another one too
C2_Witness ==
    /\ SetDone
    /\ Cardinality(set) >= 2
    /\ Cardinality(set) < Cardinality(ExprPos(tokens))

(* ------------------------------- C3 ----------------------------------- *)
\* C3 as stated: s! on a valid template and zero or more substitution
\* values returns what format! returns on them.
C3_Original ==
    (SDone /\ tokens # << >> /\ FormatCompiles(tokens)) =>
        string = format(tokens[1].v.s, ArgsWritten(tokens))

\* C3: s! on a template followed by at least one more token (substitution
\* values, or a lone trailing comma) returns what format! returns, format
\* specifiers and escaped braces included; on the template alone it returns
\* the template verbatim, which is what format! returns when the template
\* has no brace.
C3_FormatWithArguments ==
    /\ (SDone /\ Len(tokens) >= 2 /\ FormatCompiles(tokens)) =>
          string = format(tokens[1].v.s, ArgsWritten(tokens))
    /\ (SDone /\ Len(tokens) = 1 /\ IsLit(tokens[1])) =>
          /\ string = tokens[1].v.s
          /\ ~HasBrace(tokens[1].v.s) => string = format(tokens[1].v.s, << >>)

\* a finished s! call whose template pads a value to a width
C3_Witness ==
    /\ SDone /\ Len(tokens) >= 3 /\ FormatCompiles(tokens)
    /\ \E p \in 1..Len(tokens[1].v.s) : tokens[1].v.s[p] = ":"
    /\ Len(string) > Len(to_string(tokens[3].v))
    /\ string # tokens[1].v.s

(* ------------------------------- C4 ----------------------------------- *)
\* C4: s!(v) on a single value is v.to_string(); s!(42) is "42" and
\* s!(true) is "true".
C4_SingleValue ==
    (SDone /\ Len(tokens) = 1) =>
        /\ string = to_string(tokens[1].v)
        /\ tokens[1].v = IntV(42) => string = <<"4", "2">>
        /\ tokens[1].v = BoolV(TRUE) => string = <<"t", "r", "u", "e">>

\* s!(42) has returned
C4_Witness == SDone /\ tokens = <<Expr(IntV(42))>> /\ string = <<"4", "2">>

(* ------------------------------- C5 ----------------------------------- *)
\* what map! on n pairs runs: key, value, insert, pair after pair
MapOrder(n) ==
    [q \in 1..(3 * n) |->
        LET j == ((q - 1) \div 3) + 1
            r == (q - 1) % 3
        IN IF r = 0 THEN Ev("eval", 4 * j - 3)
           ELSE IF r = 1 THEN Ev("eval", 4 * j - 1)
           ELSE Ev("insert", j)]

\* C5: map! evaluates k1, v1, inserts, k2, v2, inserts, ...: every key and
\* value expression exactly once, in the order written, pair i inserted
\* before pair i+1 is touched.
C5_MapEvaluationOrder ==
    macro = "map" =>
        /\ IsPrefix(log, MapOrder(NumPairs(tokens)))
        /\ pc = "done" =>
              /\ log = MapOrder(NumPairs(tokens))
              /\ \A p \in ExprPos(tokens) : Count(log, Ev("eval", p)) = 1

\* a finished map! call of three pairs, the second repeating the first key
C5_Witness ==
    /\ MapDone /\ NumPairs(tokens) = 3
    /\ tokens[1].v = tokens[5].v
    /\ Len(log) = 9

(* ------------------------------- C6 ----------------------------------- *)
\* what set! on n elements runs: element, insert, element after element
SetOrder(n) ==
    [q \in 1..(2 * n) |->
        LET j == ((q - 1) \div 2) + 1
        IN IF (q - 1) % 2 = 0 THEN Ev("eval", 2 * j - 1) ELSE Ev("insert", j)]

\* C6: set! evaluates every element expression exactly once, in the order
\* written, n evaluations for n elements also when the set ends smaller.
C6_SetEvaluationOrder ==
    macro = "set" =>
        /\ IsPrefix(log, SetOrder(Cardinality(ExprPos(tokens))))
        /\ pc = "done" =>
              /\ log = SetOrder(Cardinality(ExprPos(tokens)))
              /\ \A p \in ExprPos(tokens) : Count(log, Ev("eval", p)) = 1
              /\ Len(SelectSeq(log, LAMBDA e : e.ev = "eval")) = Cardinality(ExprPos(tokens))

\* a finished set! call of three elements that returned a smaller set
C6_Witness ==
    /\ SetDone /\ Cardinality(ExprPos(tokens)) = 3
    /\ Cardinality(set) < 3
    /\ Len(SelectSeq(log, LAMBDA e : e.ev = "eval")) = 3

(* ------------------------------- C7 ----------------------------------- *)
\* C7: a builder called without arguments returns the empty string,
\* mapping or set and runs no evaluation, insertion or conversion.
C7_NoArguments ==
    (pc = "done" /\ tokens = << >>) =>
        /\ macro = "s" => string = << >> /\ Len(string) = 0
        /\ macro = "map" => Size(map) = 0
        /\ macro = "set" => Cardinality(set) = 0
        /\ log = << >>

\* s!() has returned
C7_Witness == pc = "done" /\ tokens = << >> /\ macro = "s" /\ arm = 1

(* ------------------------------- C8 ----------------------------------- *)
\* C8: map! and set! accept one comma after the last pair or element and
\* return what they return without it.
C8_TrailingComma ==
    run = 2 =>
        /\ HasTrailingComma(tokens)
        /\ pc # "expand" => arm = 2
        /\ pc = "done" => map = prev.map /\ set = prev.set

\* the repeated call, with its comma, has returned a mapping of two keys
C8_Witness ==
    /\ run = 2 /\ pc = "done" /\ macro = "map"
    /\ Size(map) = 2 /\ NumPairs(tokens) = 3

(* ------------------------------- C9 ----------------------------------- *)
\* C9: s! on exactly one expression takes the conversion arm, never the
\* formatting arm; a string literal comes back verbatim, braces included;
\* the formatting arm is taken only by tokens that are no single
\* expression.
C9_ArmDispatch ==
    (macro = "s" /\ pc # "expand") =>
        /\ (Len(tokens) = 1 /\ tokens[1].k = "expr") =>
              /\ arm = 2
              /\ pc = "done" =>
                    /\ log = <<Ev("eval", 1), Ev("to_string", 1)>>
                    /\ IsLit(tokens[1]) => string = tokens[1].v.s
        /\ arm = 3 => ~(Len(tokens) = 1 /\ tokens[1].k = "expr")
        /\ arm = 3 => Len(tokens) >= 2

\* s!("{{") has returned both braces
C9_Witness ==
    /\ SDone /\ tokens = <<Expr(StrV(<<"{", "{">>))>>
    /\ string = <<"{", "{">>

(* ------------------------------- C10 ---------------------------------- *)
KeysDistinct(toks) == Cardinality(KeysWritten(toks)) = NumPairs(toks)

\* C10: while map! runs, the mapping after the i-th insert is the mapping
\* of the first i pairs; its size never drops, no key leaves it, and it
\* ends with between 1 and n entries, n exactly when the keys written are
\* pairwise distinct.
C10_InsertionSequence ==
    [][(macro = "map" /\ run' = run) =>
          /\ Size(map') >= Size(map)
          /\ DOMAIN map \subseteq DOMAIN map'
          /\ map' = LastWins(tokens, Inserts(log'))
          /\ (pc' = "done" /\ tokens # << >>) =>
                /\ Size(map') >= 1
                /\ Size(map') <= NumPairs(tokens)
                /\ Size(map') = NumPairs(tokens) <=> KeysDistinct(tokens)]_vars

\* map! is about to insert a third pair whose key is already present
C10_Witness ==
    /\ macro = "map" /\ pc = "insert" /\ i = 3
    /\ kreg \in DOMAIN map /\ Size(map) = 2
====
